---- MODULE Spec2Model ----
(***************************************************************************)
(* Model of app.py: the Streamlit "PDF to Markdown Converter with OCR".    *)
(*                                                                         *)
(* The state is the batch loop's state (uploaded_files, i, zipf, the       *)
(* messages shown with st.error), the locals of process_pdf (markdown,     *)
(* errors, warnings, page_num, img_idx, image_bytes, temp_path, ...), the  *)
(* temp directory, and observation variables that play the part of mocks   *)
(* of the collaborators (which calls the decoder and the OCR engine got,   *)
(* what the decoder answered).                                             *)
(*                                                                         *)
(* Strings are the strings the code builds, except that the leading emoji  *)
(* of each diagnostic message is left out.  A document is its byte length  *)
(* plus what the decoder (fitz) answers when asked; an image is its byte   *)
(* length plus the format PIL reports for it.  page_num and img_idx are    *)
(* the positions of the two for-loops (0-based, equal to the length of the *)
(* range once the loop is exhausted).  Locals that are dead at the end of  *)
(* an iteration (image_bytes, temp_path) are reset there, and the locals   *)
(* of process_pdf are reset when the batch loop has consumed its result.   *)
(***************************************************************************)
EXTENDS Integers, Sequences, FiniteSets, TLC

VARIABLES
    reader,           \* the process-wide OCR handle: "Reader" or "None"
    uploaded_files,   \* sequence of [name, size]
    limits,           \* the envelope of the workload: [files, pages, images]
    pc,               \* position of the script
    i,                \* index of the batch loop (0-based, enumerate)
    zipf,             \* names written to the archive, in order
    st_errors,        \* messages shown with st.error, in order
    download_button,  \* the download button is shown
    doc,              \* "None", "open" or "closed"
    total_pages,
    page_num,
    markdown,
    errors,
    warnings,
    progress_bar,     \* <<>> (no widget / emptied) or <<numerator, denominator>>
    status_text,
    img_list,         \* number of entries of page.get_images(full=True)
    img_idx,
    image_bytes,
    temp_path,        \* 0 (unset) or the temp file's name
    md_content,
    temp_dir,         \* the temp files that exist
    fitz_open_calls,  \* observation: batch indices fitz.open was called for
    load_page_calls,  \* observation: number of doc.load_page calls of this document
    readtext_calls,   \* observation: <<page, image>> of reader.readtext calls of this document
    progress_log,     \* observation: progress_bar.progress calls of this document
    doc_log           \* observation: what the decoder and engine answered, per page

vars == <<reader, uploaded_files, limits, pc, i, zipf, st_errors, download_button,
          doc, total_pages, page_num, markdown, errors, warnings, progress_bar,
          status_text, img_list, img_idx, image_bytes, temp_path, md_content,
          temp_dir, fitz_open_calls, load_page_calls, readtext_calls,
          progress_log, doc_log>>

batch_vars == <<reader, uploaded_files, limits, zipf, st_errors, download_button, i>>

-----------------------------------------------------------------------------
(* Bounds of the model *)

MaxFiles == 2
MaxPages == 3
MaxImages == 3

(* Program constants *)

MAX_PDF_SIZE_MB == 50
MAX_IMAGE_SIZE_MB == 10
MAX_PAGE_PIXELS == 10000000

MB == 1024 * 1024

-----------------------------------------------------------------------------
(* Inputs *)

Names == {"a.pdf", "b.v2.pdf"}

PdfSizes == {MAX_PDF_SIZE_MB * MB, MAX_PDF_SIZE_MB * MB + 1}

PageRects == {<<612, 792>>, <<10000, 1000>>, <<10000, 1001>>}

Texts == {"", "Hello"}

ImageFormats == {"PNG", "JPEG", "TIFF", "GIF", "undecodable"}

ImageBytes == [len : {MAX_IMAGE_SIZE_MB * MB, MAX_IMAGE_SIZE_MB * MB + 1},
               format : ImageFormats]

NoImage == [len |-> 0, format |-> "None"]

OcrResults == {<<>>, <<"WORLD">>, <<"A", "B">>}

(* str(e) of the exceptions the collaborators raise *)
ExcOpen == "cannot open broken document"
ExcLoadPage == "page not in document"
ExcGetText == "cannot extract text"
ExcGetImages == "cannot list images"
ExcExtractImage == "bad xref"
ExcTempCreate == "No usable temporary directory found"
ExcTempWrite == "No space left on device"
ExcReadtext == "readtext failed"

(* The workloads explored: a batch of files of at most a page and an image,  *)
(* a document of many pages without images, a page of many images, and a   *)
(* document of two pages with at most an image each.                       *)
Shapes == {[files |-> MaxFiles, pages |-> 1, images |-> 1],
           [files |-> 1, pages |-> MaxPages, images |-> 0],
           [files |-> 1, pages |-> 1, images |-> MaxImages],
           [files |-> 1, pages |-> 2, images |-> 1]}

RECURSIVE SeqsUpTo(_, _)
SeqsUpTo(S, n) ==
    IF n = 0 THEN {<<>>}
    ELSE LET shorter == SeqsUpTo(S, n - 1)
         IN shorter \cup {Append(s, x) : s \in shorter, x \in S}

-----------------------------------------------------------------------------
(* Pure functions *)

RECURSIVE Join(_, _)
Join(sep, seq) ==
    IF seq = <<>> THEN ""
    ELSE IF Len(seq) = 1 THEN seq[1]
    ELSE seq[1] \o sep \o Join(sep, Tail(seq))

(* f"{size_mb:.1f}" for size_mb = len / (1024 * 1024): the division is     *)
(* exact in binary floating point, the format rounds half to even.         *)
FormatMb1(len) ==
    LET q == (len * 10) \div MB
        r == (len * 10) % MB
        tenths == IF 2 * r > MB \/ (2 * r = MB /\ q % 2 = 1) THEN q + 1 ELSE q
    IN ToString(tenths \div 10) \o "." \o ToString(tenths % 10)

validate_pdf_size_floor(len) ==
    IF len \div MB > MAX_PDF_SIZE_MB
    THEN [raised |-> TRUE,
          msg |-> "PDF file too large (max " \o ToString(MAX_PDF_SIZE_MB)
                  \o "MB allowed, got " \o FormatMb1(len) \o "MB)"]
    ELSE [raised |-> FALSE, msg |-> ""]

validate_pdf_size(len) ==
    IF len > MAX_PDF_SIZE_MB * MB
    THEN [raised |-> TRUE,
          msg |-> "PDF file too large (max " \o ToString(MAX_PDF_SIZE_MB)
                  \o "MB allowed, got " \o FormatMb1(len) \o "MB)"]
    ELSE [raised |-> FALSE, msg |-> ""]

validate_image(img) ==
    IF img.len > MAX_IMAGE_SIZE_MB * MB
    THEN [raised |-> TRUE, ok |-> FALSE,
          msg |-> "Image too large (max " \o ToString(MAX_IMAGE_SIZE_MB) \o "MB allowed)"]
    ELSE [raised |-> FALSE, ok |-> img.format \in {"PNG", "JPEG", "TIFF"}, msg |-> ""]

(* os.path.splitext(name)[0]: cut at the last dot, unless only dots precede it *)
RECURSIVE LastDot(_, _)
LastDot(name, k) ==
    IF k = 0 THEN 0
    ELSE IF SubSeq(name, k, k) = "." THEN k
    ELSE LastDot(name, k - 1)

splitext_root(name) ==
    LET d == LastDot(name, Len(name))
    IN IF d > 0 /\ \E k \in 1..(d - 1) : SubSeq(name, k, k) # "."
       THEN SubSeq(name, 1, d - 1)
       ELSE name

page_too_large(rect) == rect[1] * rect[2] > MAX_PAGE_PIXELS

progress_stale(n, total) == <<n, total>>

progress(n, total) == <<n + 1, total>>

(* The messages and sections the code formats *)
PageSection(p, text) == "## Page " \o ToString(p) \o "\n\n" \o text
ImagesHeading(p) == "### Images on Page " \o ToString(p)
OcrEntry(k, lines) == "**Image " \o ToString(k) \o " OCR:**\n" \o Join(" ", lines) \o "\n"
PageTooLargeWarning(p) ==
    "Page " \o ToString(p) \o " too large, might affect processing quality"
SkippedWarning(k, p) ==
    "Skipped image " \o ToString(k) \o " on page " \o ToString(p)
    \o ": Invalid format or corrupted"
NoTextWarning(k, p) ==
    "No text found in image " \o ToString(k) \o " on page " \o ToString(p)
TextError(p, e) ==
    "Failed to extract text from page " \o ToString(p) \o ": " \o e
OcrError(k, p, e) ==
    "OCR Error for image " \o ToString(k) \o " on page " \o ToString(p) \o ": " \o e
ImageError(k, p, e) ==
    "Failed to process image " \o ToString(k) \o " on page " \o ToString(p) \o ": " \o e
PageError(p, e) == "Failed to process page " \o ToString(p) \o ": " \o e
OpenError(e) == "Failed to open PDF: " \o e
BatchError(name, e) == "Error processing " \o name \o ": " \o e

SummaryWarningsFirst(errs, warns) ==
    IF errs = <<>> /\ warns = <<>> THEN <<>>
    ELSE <<"\n## Processing Summary">>
         \o (IF warns # <<>> THEN <<"\n### Warnings">> \o warns ELSE <<>>)
         \o (IF errs # <<>> THEN <<"\n### Errors">> \o errs ELSE <<>>)

Summary(errs, warns) ==
    IF errs = <<>> /\ warns = <<>> THEN <<>>
    ELSE <<"\n## Processing Summary">>
         \o (IF errs # <<>> THEN <<"\n### Errors">> \o errs ELSE <<>>)
         \o (IF warns # <<>> THEN <<"\n### Warnings">> \o warns ELSE <<>>)

-----------------------------------------------------------------------------
(* Initial state: the script has run up to the button, reader = get_reader() *)

Init ==
    /\ reader \in {"Reader", "None"}
    /\ limits \in Shapes
    /\ uploaded_files \in SeqsUpTo([name : Names, size : PdfSizes], limits.files)
    /\ pc = "idle"
    /\ i = 0
    /\ zipf = <<>>
    /\ st_errors = <<>>
    /\ download_button = FALSE
    /\ doc = "None"
    /\ total_pages = 0
    /\ page_num = 0
    /\ markdown = <<>>
    /\ errors = <<>>
    /\ warnings = <<>>
    /\ progress_bar = <<>>
    /\ status_text = ""
    /\ img_list = 0
    /\ img_idx = 0
    /\ image_bytes = NoImage
    /\ temp_path = 0
    /\ md_content = ""
    /\ temp_dir = {}
    /\ fitz_open_calls = <<>>
    /\ load_page_calls = 0
    /\ readtext_calls = {}
    /\ progress_log = <<>>
    /\ doc_log = <<>>

-----------------------------------------------------------------------------
(* Fragments shared by the steps of process_pdf *)

PageNo == page_num + 1
ImgNo == img_idx + 1

LocalsReset ==
    /\ doc' = "None"
    /\ total_pages' = 0
    /\ page_num' = 0
    /\ markdown' = <<>>
    /\ errors' = <<>>
    /\ warnings' = <<>>
    /\ progress_bar' = <<>>
    /\ status_text' = ""
    /\ img_list' = 0
    /\ img_idx' = 0
    /\ image_bytes' = NoImage
    /\ temp_path' = 0
    /\ md_content' = ""
    /\ load_page_calls' = 0
    /\ readtext_calls' = {}
    /\ progress_log' = <<>>
    /\ doc_log' = <<>>

(* except Exception as e: st.error(...) of the batch loop, then the next file *)
BatchExcept(e) ==
    /\ st_errors' = Append(st_errors, BatchError(uploaded_files[i + 1].name, e))
    /\ i' = i + 1
    /\ pc' = "file"

(* the for-loop over the pages moves on *)
NextPage ==
    /\ pc' = "page"
    /\ page_num' = page_num + 1

(* the for-loop over the images moves on, and past the last image so does the page loop *)
NextImage ==
    /\ image_bytes' = NoImage
    /\ temp_path' = 0
    /\ img_idx' = img_idx + 1
    /\ IF img_idx + 1 < img_list
       THEN pc' = "extract_image" /\ page_num' = page_num
       ELSE NextPage

LogPage(entry) == doc_log' = [doc_log EXCEPT ![Len(doc_log)] = entry]

LogImage(tag, lines) ==
    doc_log' = [doc_log EXCEPT ![Len(doc_log)].imgs =
                    Append(@, [tag |-> tag, lines |-> lines])]

OnImageExceptionAbortsPage(e, tag) ==
    /\ errors' = Append(errors, ImageError(ImgNo, PageNo, e))
    /\ LogImage(tag, <<>>)
    /\ image_bytes' = NoImage
    /\ temp_path' = 0
    /\ img_idx' = img_idx + 1
    /\ NextPage

(* except Exception as e (the image's try): record the error, go on with the next image *)
OnImageException(e, tag) ==
    /\ errors' = Append(errors, ImageError(ImgNo, PageNo, e))
    /\ LogImage(tag, <<>>)
    /\ NextImage

images_heading_always(n, p) == <<ImagesHeading(p)>>

(* if img_list: markdown.append(heading) *)
images_heading(n, p) == IF n > 0 THEN <<ImagesHeading(p)>> ELSE <<>>

(* tempfile.NamedTemporaryFile picks a name that is not in use *)
FreshTemp == CHOOSE n \in 1..(Cardinality(temp_dir) + 1) : n \notin temp_dir

-----------------------------------------------------------------------------
(* The steps *)

(* if st.button(...) and uploaded_files: the archive is opened *)
PressButton ==
    /\ pc = "idle"
    /\ uploaded_files # <<>>
    /\ pc' = "file"
    /\ i' = 0
    /\ zipf' = <<>>
    /\ UNCHANGED <<reader, uploaded_files, limits, st_errors, download_button,
                   doc, total_pages, page_num, markdown, errors, warnings,
                   progress_bar, status_text, img_list, img_idx, image_bytes,
                   temp_path, md_content, temp_dir, fitz_open_calls,
                   load_page_calls, readtext_calls, progress_log, doc_log>>

(* process_pdf is entered for the next file: size check, fitz.open, the locals *)
ProcessPdfOpen ==
    /\ pc = "file"
    /\ i < Len(uploaded_files)
    /\ LET v == validate_pdf_size(uploaded_files[i + 1].size)
       IN \/ /\ v.raised
             /\ BatchExcept(OpenError(v.msg))
             /\ UNCHANGED <<fitz_open_calls, doc, total_pages, page_num, markdown,
                            errors, warnings, progress_bar, status_text>>
          \/ /\ ~v.raised
             /\ fitz_open_calls' = Append(fitz_open_calls, i)
             /\ \/ /\ BatchExcept(OpenError(ExcOpen))
                   /\ UNCHANGED <<doc, total_pages, page_num, markdown, errors,
                                  warnings, progress_bar, status_text>>
                \/ /\ \E n \in 0..limits.pages : total_pages' = n
                   /\ doc' = "open"
                   /\ markdown' = <<>>
                   /\ errors' = <<>>
                   /\ warnings' = <<>>
                   /\ progress_bar' = <<0, 1>>
                   /\ status_text' = ""
                   /\ page_num' = 0
                   /\ pc' = "page"
                   /\ UNCHANGED <<i, st_errors>>
    /\ UNCHANGED <<reader, uploaded_files, limits, zipf, download_button,
                   img_list, img_idx, image_bytes, temp_path, md_content,
                   temp_dir, load_page_calls, readtext_calls, progress_log, doc_log>>

(* the head of a page's iteration: the progress report *)
PageBegin ==
    /\ pc = "page"
    /\ page_num < total_pages
    /\ progress_bar' = progress(page_num, total_pages)
    /\ status_text' = "Processing page " \o ToString(page_num + 1) \o "/"
                      \o ToString(total_pages)
    /\ progress_log' = Append(progress_log,
                              [value |-> progress(page_num, total_pages),
                               page |-> PageNo,
                               attempted |-> load_page_calls])
    /\ pc' = "load_page"
    /\ UNCHANGED <<batch_vars, doc, total_pages, page_num, markdown, errors,
                   warnings, img_list, img_idx, image_bytes, temp_path,
                   md_content, temp_dir, fitz_open_calls, load_page_calls,
                   readtext_calls, doc_log>>

(* doc.load_page and the page size check *)
LoadPage ==
    /\ pc = "load_page"
    /\ load_page_calls' = load_page_calls + 1
    /\ LET mark == [md |-> Len(markdown), err |-> Len(errors), warn |-> Len(warnings)]
           entry == [status |-> "load_failed", large |-> FALSE, text |-> "",
                     nimgs |-> 0, imgs |-> <<>>, mark |-> mark]
       IN \/ /\ errors' = Append(errors, PageError(PageNo, ExcLoadPage))
             /\ doc_log' = Append(doc_log, entry)
             /\ NextPage
             /\ UNCHANGED warnings
          \/ \E rect \in PageRects :
                /\ warnings' = IF page_too_large(rect)
                               THEN Append(warnings, PageTooLargeWarning(PageNo))
                               ELSE warnings
                /\ doc_log' = Append(doc_log,
                                     [entry EXCEPT !.status = "loaded",
                                                   !.large = page_too_large(rect)])
                /\ pc' = "get_text"
                /\ UNCHANGED <<errors, page_num>>
    /\ UNCHANGED <<batch_vars, doc, total_pages, markdown, progress_bar,
                   status_text, img_list, img_idx, image_bytes, temp_path,
                   md_content, temp_dir, fitz_open_calls, readtext_calls,
                   progress_log>>

(* text = page.get_text(); markdown.append(...) / except: errors.append; continue *)
ExtractText ==
    /\ pc = "get_text"
    /\ LET entry == doc_log[Len(doc_log)]
       IN \/ /\ errors' = Append(errors, TextError(PageNo, ExcGetText))
             /\ LogPage([entry EXCEPT !.status = "text_failed"])
             /\ NextPage
             /\ UNCHANGED markdown
          \/ \E text \in Texts :
                /\ markdown' = Append(markdown, PageSection(PageNo, text))
                /\ LogPage([entry EXCEPT !.status = "text_ok", !.text = text])
                /\ pc' = "get_images"
                /\ UNCHANGED <<errors, page_num>>
    /\ UNCHANGED <<batch_vars, doc, total_pages, warnings, progress_bar,
                   status_text, img_list, img_idx, image_bytes, temp_path,
                   md_content, temp_dir, fitz_open_calls, load_page_calls,
                   readtext_calls, progress_log>>

(* img_list = page.get_images(full=True) and the heading *)
GetImages ==
    /\ pc = "get_images"
    /\ LET entry == doc_log[Len(doc_log)]
       IN \/ /\ errors' = Append(errors, PageError(PageNo, ExcGetImages))
             /\ LogPage([entry EXCEPT !.status = "images_failed"])
             /\ NextPage
             /\ UNCHANGED <<markdown, img_list, img_idx>>
          \/ \E n \in 0..limits.images :
                /\ img_list' = n
                /\ img_idx' = 0
                /\ markdown' = markdown \o images_heading(n, PageNo)
                /\ LogPage([entry EXCEPT !.status = "images_listed", !.nimgs = n])
                /\ IF n > 0
                   THEN pc' = "extract_image" /\ page_num' = page_num
                   ELSE NextPage
                /\ UNCHANGED errors
    /\ UNCHANGED <<batch_vars, doc, total_pages, warnings, progress_bar,
                   status_text, image_bytes, temp_path, md_content, temp_dir,
                   fitz_open_calls, load_page_calls, readtext_calls, progress_log>>

(* base_image = doc.extract_image(xref); image_bytes = base_image["image"] *)
ExtractImage ==
    /\ pc = "extract_image"
    /\ \/ /\ OnImageException(ExcExtractImage, "extract_failed")
       \/ /\ \E b \in ImageBytes : image_bytes' = b
          /\ pc' = "validate_image"
          /\ UNCHANGED <<errors, doc_log, temp_path, img_idx, page_num>>
    /\ UNCHANGED <<batch_vars, doc, total_pages, markdown, warnings, progress_bar,
                   status_text, img_list, md_content, temp_dir, fitz_open_calls,
                   load_page_calls, readtext_calls, progress_log>>

(* if not validate_image(image_bytes): warnings.append(...); continue *)
ValidateImage ==
    /\ pc = "validate_image"
    /\ LET v == validate_image(image_bytes)
       IN \/ /\ v.raised
             /\ OnImageException(v.msg, "too_large")
             /\ UNCHANGED warnings
          \/ /\ ~v.raised
             /\ ~v.ok
             /\ warnings' = Append(warnings, SkippedWarning(ImgNo, PageNo))
             /\ LogImage("rejected", <<>>)
             /\ NextImage
             /\ UNCHANGED errors
          \/ /\ ~v.raised
             /\ v.ok
             /\ pc' = "tempfile"
             /\ UNCHANGED <<errors, warnings, doc_log, image_bytes, temp_path,
                            img_idx, page_num>>
    /\ UNCHANGED <<batch_vars, doc, total_pages, markdown, progress_bar,
                   status_text, img_list, md_content, temp_dir, fitz_open_calls,
                   load_page_calls, readtext_calls, progress_log>>

(* with tempfile.NamedTemporaryFile(delete=False, ...) as f: f.write(...); temp_path = f.name *)
WriteTemp ==
    /\ pc = "tempfile"
    /\ \/ /\ OnImageException(ExcTempCreate, "temp_failed")
          /\ UNCHANGED temp_dir
       \/ /\ temp_dir' = temp_dir \cup {FreshTemp}
          /\ OnImageException(ExcTempWrite, "write_failed")
       \/ /\ temp_dir' = temp_dir \cup {FreshTemp}
          /\ temp_path' = FreshTemp
          /\ pc' = "ocr"
          /\ UNCHANGED <<errors, doc_log, image_bytes, img_idx, page_num>>
    /\ UNCHANGED <<batch_vars, doc, total_pages, markdown, warnings, progress_bar,
                   status_text, img_list, md_content, fitz_open_calls,
                   load_page_calls, readtext_calls, progress_log>>

(* the inner try: the engine check, reader.readtext, the result; finally: os.unlink *)
Ocr ==
    /\ pc = "ocr"
    /\ \/ /\ reader = "None"
          /\ errors' = Append(errors, OcrError(ImgNo, PageNo, "OCR engine not initialized"))
          /\ LogImage("ocr_unavailable", <<>>)
          /\ UNCHANGED <<markdown, warnings, readtext_calls>>
       \/ /\ reader # "None"
          /\ readtext_calls' = readtext_calls \cup {<<PageNo, ImgNo>>}
          /\ \/ /\ errors' = Append(errors, OcrError(ImgNo, PageNo, ExcReadtext))
                /\ LogImage("ocr_failed", <<>>)
                /\ UNCHANGED <<markdown, warnings>>
             \/ \E ocr_results \in OcrResults :
                   IF ocr_results # <<>>
                   THEN /\ markdown' = Append(markdown, OcrEntry(ImgNo, ocr_results))
                        /\ LogImage("recognized", ocr_results)
                        /\ UNCHANGED <<errors, warnings>>
                   ELSE /\ warnings' = Append(warnings, NoTextWarning(ImgNo, PageNo))
                        /\ LogImage("no_text", <<>>)
                        /\ UNCHANGED <<errors, markdown>>
    /\ temp_dir' = temp_dir \ {temp_path}
    /\ NextImage
    /\ UNCHANGED <<batch_vars, doc, total_pages, progress_bar, status_text,
                   img_list, md_content, fitz_open_calls, load_page_calls,
                   progress_log>>

(* the outer finally, the summary and the join: process_pdf is about to return *)
Summarize ==
    /\ pc = "page"
    /\ page_num = total_pages
    /\ progress_bar' = <<>>
    /\ status_text' = ""
    /\ doc' = "closed"
    /\ markdown' = markdown \o Summary(errors, warnings)
    /\ md_content' = Join("\n\n", markdown')
    /\ pc' = "return"
    /\ UNCHANGED <<batch_vars, total_pages, page_num, errors, warnings, img_list,
                   img_idx, image_bytes, temp_path, temp_dir, fitz_open_calls,
                   load_page_calls, readtext_calls, progress_log, doc_log>>

(* if md_content: zipf.writestr(filename, ...); the next file *)
Archive ==
    /\ pc = "return"
    /\ zipf' = IF md_content # ""
               THEN Append(zipf, splitext_root(uploaded_files[i + 1].name) \o ".md")
               ELSE zipf
    /\ i' = i + 1
    /\ pc' = "file"
    /\ LocalsReset
    /\ UNCHANGED <<reader, uploaded_files, limits, st_errors, download_button,
                   temp_dir, fitz_open_calls>>

(* the archive is closed; zip_buffer holds at least the end record: the download is offered *)
OfferDownload ==
    /\ pc = "file"
    /\ i = Len(uploaded_files)
    /\ download_button' = TRUE
    /\ pc' = "done"
    /\ UNCHANGED <<reader, uploaded_files, limits, zipf, st_errors, i,
                   doc, total_pages, page_num, markdown, errors, warnings,
                   progress_bar, status_text, img_list, img_idx, image_bytes,
                   temp_path, md_content, temp_dir, fitz_open_calls,
                   load_page_calls, readtext_calls, progress_log, doc_log>>

Next ==
    \/ PressButton
    \/ ProcessPdfOpen
    \/ PageBegin
    \/ LoadPage
    \/ ExtractText
    \/ GetImages
    \/ ExtractImage
    \/ ValidateImage
    \/ WriteTemp
    \/ Ocr
    \/ Summarize
    \/ Archive
    \/ OfferDownload

Spec == Init /\ [][Next]_vars

TypeOK ==
    /\ pc \in {"idle", "file", "page", "load_page", "get_text", "get_images",
               "extract_image", "validate_image", "tempfile", "ocr", "return", "done"}
    /\ i \in 0..Len(uploaded_files)
    /\ page_num \in 0..total_pages
    /\ img_idx \in 0..img_list

-----------------------------------------------------------------------------
(* Vocabulary of the properties *)

StartsWith(s, prefix) ==
    Len(s) >= Len(prefix) /\ SubSeq(s, 1, Len(prefix)) = prefix

Range(seq) == {seq[k] : k \in 1..Len(seq)}

RECURSIVE Count(_, _)
Count(seq, x) ==
    IF seq = <<>> THEN 0
    ELSE (IF Head(seq) = x THEN 1 ELSE 0) + Count(Tail(seq), x)

(* the process_pdf call has not yet appended its summary *)
InPages == pc \in {"page", "load_page", "get_text", "get_images", "extract_image",
                   "validate_image", "tempfile", "ocr"}

(* the iteration of page p is over *)
PageFinished(p) ==
    /\ p \in 1..Len(doc_log)
    /\ \/ p < Len(doc_log)
       \/ pc \in {"page", "load_page", "return"}

(* what page p appended to markdown, errors and warnings (before the summary) *)
MdSeg(p) ==
    SubSeq(markdown, doc_log[p].mark.md + 1,
           IF p < Len(doc_log) THEN doc_log[p + 1].mark.md ELSE Len(markdown))
ErrSeg(p) ==
    SubSeq(errors, doc_log[p].mark.err + 1,
           IF p < Len(doc_log) THEN doc_log[p + 1].mark.err ELSE Len(errors))
WarnSeg(p) ==
    SubSeq(warnings, doc_log[p].mark.warn + 1,
           IF p < Len(doc_log) THEN doc_log[p + 1].mark.warn ELSE Len(warnings))

(* an exception was raised while the image was processed *)
FailTags == {"extract_failed", "too_large", "temp_failed", "write_failed",
             "ocr_unavailable", "ocr_failed"}
(* validate_image did not admit the image *)
GateRejectTags == {"rejected", "too_large"}

ExcMessages == {ExcExtractImage, ExcTempCreate, ExcTempWrite, ExcReadtext,
                "OCR engine not initialized",
                "Image too large (max 10MB allowed)"}

(* the Error messages that name image k of page p *)
ErrorsNaming(k, p) ==
    {ImageError(k, p, e) : e \in ExcMessages} \cup {OcrError(k, p, e) : e \in ExcMessages}

RECURSIVE ExpectedOcr(_, _)
ExpectedOcr(imgs, k) ==
    IF k > Len(imgs) THEN <<>>
    ELSE (IF imgs[k].tag = "recognized" THEN <<OcrEntry(k, imgs[k].lines)>> ELSE <<>>)
         \o ExpectedOcr(imgs, k + 1)

RECURSIVE ExpectedWarnings(_, _, _)
ExpectedWarnings(imgs, p, k) ==
    IF k > Len(imgs) THEN <<>>
    ELSE (IF imgs[k].tag = "rejected" THEN <<SkippedWarning(k, p)>>
          ELSE IF imgs[k].tag = "no_text" THEN <<NoTextWarning(k, p)>>
          ELSE <<>>)
         \o ExpectedWarnings(imgs, p, k + 1)

Failing(p) == {k \in 1..Len(doc_log[p].imgs) : doc_log[p].imgs[k].tag \in FailTags}

-----------------------------------------------------------------------------
(* C1: once the batch loop has finished (and between any two files), every  *)
(* input document has exactly one recorded outcome: an archive entry under  *)
(* its derived name or a reported failure naming it.                        *)
C1_OneOutcomePerDocument ==
    pc \in {"file", "done"} =>
        /\ Len(zipf) + Len(st_errors) = i
        /\ \A nm \in Names :
              Count([k \in 1..i |-> uploaded_files[k].name], nm)
                = Count(zipf, splitext_root(nm) \o ".md")
                  + Cardinality({k \in 1..Len(st_errors) :
                                    StartsWith(st_errors[k], "Error processing " \o nm \o ": ")})

(* C2: on a finished page whose N listed images include exactly one whose   *)
(* processing raised, all N images were processed, the page's errors are    *)
(* exactly one Error naming the failing image, the other images' results    *)
(* (OCR entries, warnings) are there in enumeration order, and the page's   *)
(* text section is still the text that was extracted.                       *)
C2_OneFailingImage ==
    InPages =>
        \A p \in 1..Len(doc_log) :
            LET e == doc_log[p]
            IN (/\ PageFinished(p)
                /\ e.status = "images_listed"
                /\ Cardinality(Failing(p)) = 1)
               => /\ Len(e.imgs) = e.nimgs
                  /\ Len(ErrSeg(p)) = 1
                  /\ \E k \in Failing(p) : ErrSeg(p)[1] \in ErrorsNaming(k, p)
                  /\ MdSeg(p) = <<PageSection(p, e.text), ImagesHeading(p)>>
                                \o ExpectedOcr(e.imgs, 1)
                  /\ WarnSeg(p) = (IF e.large THEN <<PageTooLargeWarning(p)>> ELSE <<>>)
                                  \o ExpectedWarnings(e.imgs, p, 1)

C2_Witness ==
    /\ pc = "page"
    /\ \E p \in 1..Len(doc_log) :
          /\ doc_log[p].status = "images_listed"
          /\ doc_log[p].nimgs >= 3
          /\ Len(doc_log[p].imgs) = doc_log[p].nimgs
          /\ Failing(p) = {2}
          /\ doc_log[p].imgs[1].tag = "recognized"
          /\ doc_log[p].imgs[3].tag = "recognized"

(* C3: when text extraction fails on page n, the artifact has a Page n      *)
(* section with empty text, no image of the page is gated or recognised,    *)
(* exactly one Error for the page is recorded, and the later pages are      *)
(* still processed.                                                         *)
C3_TextFailureKeepsSection ==
    \A p \in 1..Len(doc_log) :
        (PageFinished(p) /\ doc_log[p].status = "text_failed")
        => /\ PageSection(p, "") \in Range(markdown)
           /\ doc_log[p].imgs = <<>>
           /\ \A k \in 1..(limits.images + 1) : <<p, k>> \notin readtext_calls
           /\ ErrSeg(p) = <<TextError(p, ExcGetText)>>
           /\ pc = "return" => Len(doc_log) = total_pages

(* C4: an image the gate rejects (undecodable, format not allowed, or over  *)
(* the size ceiling) never reaches reader.readtext and leaves exactly one   *)
(* diagnostic, a Warning, and no Error.                                     *)
C4_RejectedImageWarnsOnly ==
    \A p \in 1..Len(doc_log) :
        \A k \in 1..Len(doc_log[p].imgs) :
            doc_log[p].imgs[k].tag \in GateRejectTags
            => /\ <<p, k>> \notin readtext_calls
               /\ Count(warnings, SkippedWarning(k, p)) = 1
               /\ Count(warnings, NoTextWarning(k, p)) = 0
               /\ ErrorsNaming(k, p) \cap Range(errors) = {}

(* C5: a temp file exists only while its image is between the write and    *)
(* the end of the OCR step; at every other point, and when process_pdf      *)
(* has returned or raised, no temp file is left.                            *)
C5_TempFilesReleased ==
    pc # "ocr" => temp_dir = {}

(* C6: a step that starts process_pdf on a document longer than the size    *)
(* ceiling ends in the batch loop's failure report with a document-open     *)
(* error; fitz.open is not called, no page is loaded, no progress is        *)
(* reported and nothing is archived.                                        *)
C6_OversizeNeverDecoded ==
    [][(/\ pc = "file"
        /\ i < Len(uploaded_files)
        /\ uploaded_files[i + 1].size > MAX_PDF_SIZE_MB * 1024 * 1024)
       => (/\ fitz_open_calls' = fitz_open_calls
           /\ Len(st_errors') = Len(st_errors) + 1
           /\ StartsWith(st_errors'[Len(st_errors')],
                         "Error processing " \o uploaded_files[i + 1].name
                         \o ": Failed to open PDF: PDF file too large")
           /\ zipf' = zipf
           /\ doc' = "None"
           /\ load_page_calls' = 0
           /\ progress_log' = <<>>
           /\ progress_bar' = <<>>
           /\ pc' = "file"
           /\ i' = i + 1)]_vars

C6_Witness ==
    /\ i >= 1
    /\ uploaded_files[i].size > MAX_PDF_SIZE_MB * 1024 * 1024
    /\ pc = "file"
    /\ st_errors # <<>>
    /\ i - 1 \notin Range(fitz_open_calls)

(* C7: with the OCR handle absent no temp file is ever created, and the     *)
(* failure is an Error for the image that does not abort the page.          *)
C7_NoTempWithoutEngine ==
    reader = "None" =>
        /\ temp_dir = {}
        /\ temp_path = 0
        /\ \A p \in 1..Len(doc_log) :
              (PageFinished(p) /\ doc_log[p].status = "images_listed")
              => Len(doc_log[p].imgs) = doc_log[p].nimgs

(* C8: when process_pdf returns, markdown holds the summary heading iff a   *)
(* diagnostic was collected; the summary is the end of markdown, lists the  *)
(* errors under Errors, then the warnings under Warnings, each in the order *)
(* of collection, has no subsection for an empty list, and holds every      *)
(* diagnostic exactly once.                                                 *)
C8_SummarySection ==
    pc = "return" =>
        LET n == Len(markdown)
            ne == Len(errors)
            nw == Len(warnings)
            heads == {k \in 1..n : markdown[k] = "\n## Processing Summary"}
            size == (IF ne > 0 THEN ne + 1 ELSE 0) + (IF nw > 0 THEN nw + 1 ELSE 0)
        IN /\ (heads # {}) <=> (ne + nw > 0)
           /\ md_content = Join("\n\n", markdown)
           /\ heads # {} =>
                /\ heads = {n - size}
                /\ ne > 0 => /\ markdown[n - size + 1] = "\n### Errors"
                             /\ SubSeq(markdown, n - size + 2, n - size + 1 + ne) = errors
                /\ nw > 0 => /\ markdown[n - nw] = "\n### Warnings"
                             /\ SubSeq(markdown, n - nw + 1, n) = warnings
                /\ \A d \in Range(errors) \cup Range(warnings) : Count(markdown, d) = 1
                /\ Count(markdown, "\n### Errors") = (IF ne > 0 THEN 1 ELSE 0)
                /\ Count(markdown, "\n### Warnings") = (IF nw > 0 THEN 1 ELSE 0)

C8_Witness ==
    /\ pc = "return"
    /\ Len(errors) >= 2
    /\ Len(warnings) >= 2

(* C9 as stated: one report per page, the k-th being k/N, each issued after *)
(* that page's processing was attempted, strictly increasing, the last 1.   *)
C9_ProgressAfterPage ==
    /\ \A k \in 1..Len(progress_log) :
          /\ progress_log[k].value = <<k, total_pages>>
          /\ progress_log[k].attempted >= progress_log[k].page
    /\ (pc = "return" /\ total_pages >= 1) =>
          /\ Len(progress_log) = total_pages
          /\ progress_log[total_pages].value[1] = progress_log[total_pages].value[2]

(* C9 as amended: one report per page, the k-th being k/N, issued at the    *)
(* head of page k's iteration, when k - 1 pages have been attempted and     *)
(* page k has not; the values are strictly increasing and the last is 1.    *)
C9_ProgressBeforePage ==
    /\ \A k \in 1..Len(progress_log) :
          /\ progress_log[k].page = k
          /\ progress_log[k].value = <<k, total_pages>>
          /\ progress_log[k].attempted = k - 1
          /\ k > 1 => progress_log[k - 1].value[1] * progress_log[k].value[2]
                        < progress_log[k].value[1] * progress_log[k - 1].value[2]
    /\ load_page_calls \in {Len(progress_log), Len(progress_log) - 1}
    /\ pc = "load_page" <=> load_page_calls = Len(progress_log) - 1
    /\ (pc = "return" /\ total_pages >= 1) =>
          /\ Len(progress_log) = total_pages
          /\ progress_log[total_pages].value[1] = progress_log[total_pages].value[2]

C9_Witness ==
    /\ pc = "return"
    /\ total_pages >= 2
    /\ Len(progress_log) = total_pages
    /\ doc_log[1].status = "load_failed"

(* C10 as stated: the Images on Page n heading is there iff an image of     *)
(* page n yielded recognised text.                                          *)
C10_HeadingIffRecognized ==
    \A p \in 1..Len(doc_log) :
        PageFinished(p) =>
            (ImagesHeading(p) \in Range(markdown)
             <=> \E k \in 1..Len(doc_log[p].imgs) : doc_log[p].imgs[k].tag = "recognized")

(* C10 as amended: the heading is there iff the page's text was extracted   *)
(* and page.get_images listed at least one image, whatever became of the    *)
(* images; it is there at most once and follows the page's text section.    *)
C10_HeadingIffImagesListed ==
    \A p \in 1..Len(doc_log) :
        PageFinished(p) =>
            /\ ImagesHeading(p) \in Range(markdown)
               <=> (doc_log[p].status = "images_listed" /\ doc_log[p].nimgs >= 1)
            /\ Count(markdown, ImagesHeading(p)) <= 1
            /\ ImagesHeading(p) \in Range(markdown)
               => /\ MdSeg(p)[1] = PageSection(p, doc_log[p].text)
                  /\ MdSeg(p)[2] = ImagesHeading(p)

C10_Witness ==
    /\ pc = "return"
    /\ \E p \in 1..Len(doc_log) :
          /\ doc_log[p].nimgs >= 1
          /\ Len(doc_log[p].imgs) = doc_log[p].nimgs
          /\ \A k \in 1..Len(doc_log[p].imgs) : doc_log[p].imgs[k].tag # "recognized"
          /\ ImagesHeading(p) \in Range(markdown)

====
